---- MODULE Spec2Model ----
(***************************************************************************)
(* Model of the storage read path of query/functions/storage/pb/reader.go: *)
(* streamState (per-connection frame cursor), mergedStreams (k-way merge   *)
(* cursor), table (single-pass columnar view) and tableIterator.Do with    *)
(* its two decode loops handleRead / handleGroupRead.                      *)
(*                                                                         *)
(* Encodings.  Tag and partition key values (byte strings compared with <) *)
(* are naturals, 0 being the empty string; a nil []byte is Nil.  Labels    *)
(* are strings, ordered as Go orders them by their place in LabelOrder.    *)
(* A flux.GroupKey is the record of its column labels and its values; the  *)
(* nil GroupKey is NilKey.  Fields c, id and k of a                        *)
(* frame are history fields (connection, position in the connection's      *)
(* stream, tag value of the owning announcement); no operator that models  *)
(* code reads them.  The fields rcvd, conn, req (streamState) and out      *)
(* (mergedStreams) are history fields as well: what the stream received,   *)
(* the connection it was opened on and the request it was opened with;     *)
(* before counts the receives made when the stream was opened.  The field  *)
(* cap of a table holds the capacities of its reusable buffers, alloc is a *)
(* history field on the making of its value buffer.                        *)
(* A column buffer is a record: NilBuf is the nil interface value newTable *)
(* leaves in colBufs, Buf(rows) a slice holding rows.                      *)
(*                                                                         *)
(* Specifications.  Spec is the read: Read, Do, the visitor, table.Do and  *)
(* its callback.  FairSpec is Spec under weak fairness of every action.    *)
(* KeySpec is groupKeyForSeries alone, applied to every tag list, every    *)
(* GroupKeys list and every grouping mode within the bounds.               *)
(***************************************************************************)
EXTENDS Integers, Sequences, FiniteSets, TLC

\* ----------------------------------------------------------------- bounds
MaxConns == 2
MaxKey == 2
MaxPts == 1
MaxBatch == 3
MaxEmptyPos == 1
MaxAnomalies == 1
MaxTags == 2

\* The longest GroupKeys list of a call of groupKeyForSeries alone.
MaxGroupKeys == 2

\* ------------------------------------------------------ program constants
startColIdx == 0
stopColIdx == 1
timeColIdx == 2
valueColIdx == 3

Nil == -1

\* Every label of the model, in Go's (bytewise) string order.
LabelOrder == <<"_start", "_stop", "_time", "_value", "tagA", "tagB", "tagC">>

StrRank(s) == CHOOSE r \in 1..Len(LabelOrder) : LabelOrder[r] = s

DataTypes == {"DataTypeFloat", "DataTypeInteger", "DataTypeUnsigned",
              "DataTypeBoolean", "DataTypeString"}

PointsTypes == {"boolPointsType", "intPointsType", "uintPointsType",
                "floatPointsType", "stringPointsType"}

bounds == [Start |-> 0, Stop |-> 10]

NilKey == [cols |-> <<>>, vs |-> <<>>]

\* ------------------------------------------------------------ conversions
convertGroupMode(m) ==
  CASE m = "GroupModeNone" -> "GroupNone"
    [] m = "GroupModeBy" -> "GroupBy"
    [] m = "GroupModeExcept" -> "GroupExcept"
    [] OTHER -> "GroupAll"

convertDataType(t) ==
  CASE t = "DataTypeFloat" -> "TFloat"
    [] t = "DataTypeInteger" -> "TInt"
    [] t = "DataTypeUnsigned" -> "TUInt"
    [] t = "DataTypeBoolean" -> "TBool"
    [] t = "DataTypeString" -> "TString"
    [] OTHER -> "TInvalid"

readFrameType(frame) == frame.ft

\* The flux type a Points frame of the given frame type must meet in
\* table.advance (the five case arms compare against one type each).
PointsValueType(ft) ==
  CASE ft = "boolPointsType" -> "TBool"
    [] ft = "intPointsType" -> "TInt"
    [] ft = "uintPointsType" -> "TUInt"
    [] ft = "floatPointsType" -> "TFloat"
    [] ft = "stringPointsType" -> "TString"

\* ------------------------------------------------------------- group keys
RECURSIVE SearchFrom(_, _, _, _)
SearchFrom(t, k, lo, hi) ==
  IF lo >= hi THEN lo
  ELSE LET h == (lo + hi) \div 2
       IN IF ~(StrRank(t[h + 1].Key) >= StrRank(k)) THEN SearchFrom(t, k, h + 1, hi)
          ELSE SearchFrom(t, k, lo, h)

\* sort.Search over the tags; the result is a 0-based index in 0..len(t).
indexOfTag(t, k) == SearchFrom(t, k, 0, Len(t))

\* The tag at index i of the lookup, when the lookup found a position.
TagAt(tags, i) == IF i < Len(tags) THEN <<tags[i + 1]>> ELSE <<>>

RECURSIVE GroupByCols(_, _, _)
GroupByCols(tags, gk, j) ==
  IF j > Len(gk) THEN <<>>
  ELSE TagAt(tags, indexOfTag(tags, gk[j])) \o GroupByCols(tags, gk, j + 1)

\* GroupModeExcept indexes s.Tags[len(s.Tags)] as soon as one group key is
\* greater than every tag key: the call panics.
groupKeyForSeriesPanics(s, readSpec) ==
  /\ readSpec.GroupMode = "GroupModeExcept"
  /\ \E j \in 1..Len(readSpec.GroupKeys) :
        indexOfTag(s.Tags, readSpec.GroupKeys[j]) = Len(s.Tags)

\* execute.NewGroupKey over the bounds and the selected tags.
NewGroupKey(sel, bnds) ==
  [cols |-> <<"_start", "_stop">> \o [j \in 1..Len(sel) |-> sel[j].Key],
   vs |-> <<bnds.Start, bnds.Stop>> \o [j \in 1..Len(sel) |-> sel[j].Value]]

groupKeyForSeries(s, readSpec, bnds) ==
  NewGroupKey(CASE readSpec.GroupMode = "GroupModeBy" ->
                     GroupByCols(s.Tags, readSpec.GroupKeys, 1)
                [] readSpec.GroupMode = "GroupModeExcept" -> <<>>
                [] readSpec.GroupMode \in {"GroupModeDefault", "GroupModeAll"} ->
                     s.Tags
                [] OTHER -> <<>>,
              bnds)

groupKeyForGroupPanics(g, readSpec) ==
  Len(g.PartitionKeyVals) < Len(readSpec.GroupKeys)

groupKeyForGroup(g, readSpec, bnds) ==
  [cols |-> <<"_start", "_stop">> \o readSpec.GroupKeys,
   vs |-> <<bnds.Start, bnds.Stop>>
            \o [j \in 1..Len(readSpec.GroupKeys) |-> g.PartitionKeyVals[j]]]

KeyEqual(a, b) == a = b

RECURSIVE LexLess(_, _, _)
LexLess(a, b, j) ==
  IF j > Len(a) \/ j > Len(b) THEN Len(a) < Len(b)
  ELSE IF a[j] /= b[j] THEN a[j] < b[j]
  ELSE LexLess(a, b, j + 1)

\* flux.GroupKey.Less: lexicographic over the value list.
KeyLess(a, b) == LexLess(a.vs, b.vs, 1)

\* ------------------------------------------------------------ streamState
StreamPeek(s) == s.Frames[1]

\* computeKey that keeps the first key the stream has computed.
computeKeyAsKeepFirst(s) ==
  LET p == StreamPeek(s)
      ft == readFrameType(p)
  IN IF s.currentKey /= NilKey THEN s
     ELSE IF s.group
     THEN IF ft = "groupType"
          THEN [s EXCEPT !.currentKey = groupKeyForGroup(p, s.readSpec, s.bounds)]
          ELSE s
     ELSE IF ft = "seriesType"
          THEN [s EXCEPT !.currentKey = groupKeyForSeries(p, s.readSpec, s.bounds)]
          ELSE s

computeKey(s) ==
  LET p == StreamPeek(s)
      ft == readFrameType(p)
  IN IF s.group
     THEN IF ft = "groupType"
          THEN [s EXCEPT !.currentKey = groupKeyForGroup(p, s.readSpec, s.bounds)]
          ELSE s
     ELSE IF ft = "seriesType"
          THEN [s EXCEPT !.currentKey = groupKeyForSeries(p, s.readSpec, s.bounds)]
          ELSE s

\* more() that marks the stream finished on io.EOF only.
StreamMoreAsFinishOnEOFOnly(s) ==
  IF s.finished THEN [s |-> s, ret |-> FALSE]
  ELSE IF Len(s.Frames) > 0 THEN [s |-> s, ret |-> TRUE]
  ELSE IF s.stream.msgs = <<>>
       THEN [s |-> [s EXCEPT !.finished = (s.stream.end = "EOF")], ret |-> FALSE]
  ELSE LET rep == Head(s.stream.msgs)
           s1 == [s EXCEPT !.Frames = rep,
                           !.stream.msgs = Tail(s.stream.msgs),
                           !.rcvd = s.rcvd \o rep]
       IN IF Len(rep) = 0 THEN [s |-> s1, ret |-> FALSE]
          ELSE [s |-> computeKey(s1), ret |-> TRUE]

\* streamState.more: RecvMsg takes the next message of the RPC stream, or
\* fails (io.EOF or a transport error) once the stream has no message left.
StreamMore(s) ==
  IF s.finished THEN [s |-> s, ret |-> FALSE]
  ELSE IF Len(s.Frames) > 0 THEN [s |-> s, ret |-> TRUE]
  ELSE IF s.stream.msgs = <<>>
       THEN [s |-> [s EXCEPT !.finished = TRUE], ret |-> FALSE]
  ELSE LET rep == Head(s.stream.msgs)
           s1 == [s EXCEPT !.Frames = rep,
                           !.stream.msgs = Tail(s.stream.msgs),
                           !.rcvd = s.rcvd \o rep]
       IN IF Len(rep) = 0 THEN [s |-> s1, ret |-> FALSE]
          ELSE [s |-> computeKey(s1), ret |-> TRUE]

StreamKey(s) == s.currentKey

\* next() that drops the frame behind the head together with the head.
StreamNextAsDropTwo(s) ==
  LET frame == s.Frames[1]
      s1 == [s EXCEPT !.Frames = IF Len(s.Frames) >= 2 THEN Tail(Tail(s.Frames))
                                 ELSE Tail(s.Frames)]
  IN [s |-> IF Len(s1.Frames) > 0 THEN computeKey(s1) ELSE s1,
      frame |-> frame]

StreamNext(s) ==
  LET frame == s.Frames[1]
      s1 == [s EXCEPT !.Frames = Tail(s.Frames)]
  IN [s |-> IF Len(s1.Frames) > 0 THEN computeKey(s1) ELSE s1,
      frame |-> frame]

\* ---------------------------------------------------------- mergedStreams
\* key() without the single-stream delegation.
MsKeyAsMergedKey(ms) == ms.currentKey

MsKey(ms) ==
  IF Len(ms.streams) = 1 THEN StreamKey(ms.streams[1]) ELSE ms.currentKey

\* peek indexes streams[i].rep.Frames[0]: it panics on an empty buffer.
MsPeekPanics(ms) ==
  \/ ms.i < 0
  \/ ms.i >= Len(ms.streams)
  \/ Len(ms.streams[ms.i + 1].Frames) = 0

MsPeek(ms) == StreamPeek(ms.streams[ms.i + 1])

\* ms.next once the stream at i has given up its head (r).
TakeFrame(ms, r) ==
  [ms |-> [ms EXCEPT !.streams[ms.i + 1] = r.s,
                     !.out = Append(ms.out, r.frame)],
   frame |-> r.frame]

MsNext(ms) == TakeFrame(ms, StreamNext(ms.streams[ms.i + 1]))

RECURSIVE ScanStreams(_, _, _, _)

\* The body of the loop of determineNewKey for stream j: r is the result of
\* its more().
ScanStream(ms, j, minIdx, minKey, r) ==
  IF ~r.ret
  THEN ScanStreams([ms EXCEPT !.streams[j] = r.s], j + 1, minIdx, minKey)
  ELSE IF minIdx = -1 \/ KeyLess(StreamKey(r.s), minKey)
  THEN ScanStreams([ms EXCEPT !.streams[j] = r.s], j + 1, j - 1, StreamKey(r.s))
  ELSE ScanStreams([ms EXCEPT !.streams[j] = r.s], j + 1, minIdx, minKey)

\* The loop of determineNewKey from stream j on.
ScanStreams(ms, j, minIdx, minKey) ==
  IF j > Len(ms.streams)
  THEN [ms |-> [ms EXCEPT !.currentKey = minKey, !.i = minIdx],
        ret |-> minIdx >= 0]
  ELSE ScanStream(ms, j, minIdx, minKey, StreamMore(ms.streams[j]))

determineNewKey(ms) == ScanStreams(ms, 1, -1, NilKey)

RECURSIVE MsMore(_), MsAdvance(_)

\* more() on a single stream: r is the result of the stream's more().
SingleMore(ms, r) == [ms |-> [ms EXCEPT !.streams[1] = r.s], ret |-> r.ret]

\* more() that stays on the current stream whatever its key is.
CurrentMoreAsIgnoreKey(ms, r) ==
  IF r.ret
  THEN [ms |-> [ms EXCEPT !.streams[ms.i + 1] = r.s], ret |-> TRUE]
  ELSE MsAdvance([ms EXCEPT !.streams[ms.i + 1] = r.s])

\* more() on the current stream of a merge: r is the result of its more().
CurrentMore(ms, r) ==
  IF r.ret /\ KeyEqual(StreamKey(r.s), ms.currentKey)
  THEN [ms |-> [ms EXCEPT !.streams[ms.i + 1] = r.s], ret |-> TRUE]
  ELSE MsAdvance([ms EXCEPT !.streams[ms.i + 1] = r.s])

MsMore(ms) ==
  IF Len(ms.streams) = 1 THEN SingleMore(ms, StreamMore(ms.streams[1]))
  ELSE IF ms.i < 0 THEN [ms |-> ms, ret |-> FALSE]
  ELSE IF ms.currentKey = NilKey THEN determineNewKey(ms)
  ELSE CurrentMore(ms, StreamMore(ms.streams[ms.i + 1]))

\* advance() after the last stream: d is the result of determineNewKey().
NextKey(d) == IF ~d.ret THEN [ms |-> d.ms, ret |-> FALSE] ELSE MsMore(d.ms)

MsAdvance(ms) ==
  IF ms.i + 1 = Len(ms.streams)
  THEN NextKey(determineNewKey([ms EXCEPT !.i = ms.i + 1]))
  ELSE MsMore([ms EXCEPT !.i = ms.i + 1])

\* ------------------------------------------------------------------ table
\* determineTableColsForSeries that puts the value column before the time
\* column.
determineTableColsForSeriesAsValueFirst(s, typ) ==
  [cols |-> <<[Label |-> "_start", Type |-> "TTime"],
              [Label |-> "_stop", Type |-> "TTime"],
              [Label |-> "_value", Type |-> typ],
              [Label |-> "_time", Type |-> "TTime"]>>
            \o [j \in 1..Len(s.Tags) |->
                  [Label |-> s.Tags[j].Key, Type |-> "TString"]],
   defs |-> <<Nil, Nil, Nil, Nil>> \o [j \in 1..Len(s.Tags) |-> 0]]

determineTableColsForSeries(s, typ) ==
  [cols |-> <<[Label |-> "_start", Type |-> "TTime"],
              [Label |-> "_stop", Type |-> "TTime"],
              [Label |-> "_time", Type |-> "TTime"],
              [Label |-> "_value", Type |-> typ]>>
            \o [j \in 1..Len(s.Tags) |->
                  [Label |-> s.Tags[j].Key, Type |-> "TString"]],
   defs |-> <<Nil, Nil, Nil, Nil>> \o [j \in 1..Len(s.Tags) |-> 0]]

determineTableColsForGroup(f, typ) ==
  [cols |-> <<[Label |-> "_start", Type |-> "TTime"],
              [Label |-> "_stop", Type |-> "TTime"],
              [Label |-> "_time", Type |-> "TTime"],
              [Label |-> "_value", Type |-> typ]>>
            \o [j \in 1..Len(f.TagKeys) |->
                  [Label |-> f.TagKeys[j], Type |-> "TString"]],
   defs |-> <<Nil, Nil, Nil, Nil>> \o [j \in 1..Len(f.TagKeys) |-> 0]]

\* execute.ColIdx: 0-based index of the first column with the label, or -1.
ColIdx(label, cols) ==
  IF \E j \in 1..Len(cols) : cols[j].Label = label
  THEN (CHOOSE j \in 1..Len(cols) :
          /\ cols[j].Label = label
          /\ \A h \in 1..(j - 1) : cols[h].Label /= label) - 1
  ELSE -1

\* readTags writes t.tags[-1] for a tag that is not a column: it panics.
readTagsPanics(t, tags) ==
  \E j \in 1..Len(tags) : ColIdx(tags[j].Key, t.cols) = -1

RECURSIVE SetTags(_, _, _, _)
SetTags(cur, tags, cols, j) ==
  IF j > Len(tags) THEN cur
  ELSE SetTags([cur EXCEPT ![ColIdx(tags[j].Key, cols) + 1] = tags[j].Value],
               tags, cols, j + 1)

\* readTags that keeps the cached value of a tag the frame does not carry.
readTagsAsKeepOld(t, tags) ==
  [t EXCEPT !.tags = SetTags([j \in 1..Len(t.cols) |->
                                IF t.tags[j] /= Nil THEN t.tags[j] ELSE t.defs[j]],
                             tags, t.cols, 1)]

readTags(t, tags) == [t EXCEPT !.tags = SetTags(t.defs, tags, t.cols, 1)]

NoPage == [c |-> 0, id |-> 0, ft |-> "none"]

\* A column buffer (an entry of colBufs): the nil interface value, or a
\* slice with its rows.
NilBuf == [nil |-> TRUE, rows |-> <<>>]

Buf(rows) == [nil |-> FALSE, rows |-> rows]

\* appendTags that writes one row per tag column, whatever the page length.
appendTagsAsSingleRow(t) ==
  [t EXCEPT !.colBufs = [j \in 1..Len(t.cols) |->
                           IF t.tags[j] /= Nil
                           THEN Buf(<<t.tags[j]>>)
                           ELSE t.colBufs[j]]]

\* appendTags: every column with a non-nil tag value gets t.l rows of it.
appendTags(t) ==
  [t EXCEPT !.colBufs = [j \in 1..Len(t.cols) |->
                           IF t.tags[j] /= Nil
                           THEN Buf([h \in 1..t.l |-> t.tags[j]])
                           ELSE t.colBufs[j]]]

\* appendBounds: the _start and _stop columns get t.l rows of the bounds.
appendBounds(t) ==
  [t EXCEPT !.colBufs[startColIdx + 1] = Buf([h \in 1..t.l |-> t.bounds.Start]),
            !.colBufs[stopColIdx + 1] = Buf([h \in 1..t.l |-> t.bounds.Stop])]

\* The reusable value buffer a Points case of advance fills.
ValueBuf(ft) ==
  CASE ft = "boolPointsType" -> "boolBuf"
    [] ft = "intPointsType" -> "intBuf"
    [] ft = "uintPointsType" -> "uintBuf"
    [] ft = "floatPointsType" -> "floatBuf"
    [] ft = "stringPointsType" -> "stringBuf"

\* The buffer whose capacity a Points case compares the frame's length
\* with before it fills ValueBuf(ft): the integer case looks at uintBuf, the
\* unsigned case at intBuf.
CapChecked(ft) ==
  CASE ft = "boolPointsType" -> "boolBuf"
    [] ft = "intPointsType" -> "uintBuf"
    [] ft = "uintPointsType" -> "intBuf"
    [] ft = "floatPointsType" -> "floatBuf"
    [] ft = "stringPointsType" -> "stringBuf"

\* The capacities of the reusable buffers of a new table: all are nil.
NoBufs ==
  [timeBuf |-> 0, boolBuf |-> 0, intBuf |-> 0, uintBuf |-> 0, floatBuf |-> 0,
   stringBuf |-> 0]

NoAlloc == [l |-> 0, capBefore |-> 0, made |-> FALSE, count |-> 0, sizes |-> <<>>]

\* The time buffer and the value buffer take a frame of l points: make()
\* gives a buffer of capacity l, a re-slice keeps the capacity.  alloc is a
\* history field: the capacity the value buffer had, whether a new one was
\* made, how many were made for this table, the lengths of its pages.
growBufs(t, ft, l) ==
  [t EXCEPT !.cap = [@ EXCEPT !.timeBuf = IF l > @ THEN l ELSE @,
                              ![ValueBuf(ft)] =
                                 IF l > t.cap[CapChecked(ft)] THEN l ELSE @],
            !.alloc = [l |-> l,
                       capBefore |-> t.cap[ValueBuf(ft)],
                       made |-> l > t.cap[CapChecked(ft)],
                       count |-> @.count
                                   + (IF l > t.cap[CapChecked(ft)] THEN 1 ELSE 0),
                       sizes |-> Append(@.sizes, l)]]

\* The Points cases of advance once the types agree: the frame is taken with
\* next() and becomes the page of the table (nx is the result of ms.next()):
\* its timestamps and values, the tags and the bounds fill the column buffers.
appendPoints(t, nx) ==
  [t |-> appendBounds(appendTags(
           [growBufs(t, nx.frame.ft, Len(nx.frame.Timestamps))
              EXCEPT !.empty = FALSE, !.l = Len(nx.frame.Timestamps),
                     !.colBufs[timeColIdx + 1] = Buf(nx.frame.Timestamps),
                     !.colBufs[valueColIdx + 1] = Buf(nx.frame.Values),
                     !.page = [c |-> nx.frame.c, id |-> nx.frame.id,
                               ft |-> nx.frame.ft]])),
   ms |-> nx.ms, ret |-> TRUE]

RECURSIVE TableAdvance(_, _)

\* The Points cases of advance() that stop at a frame of another type without
\* recording the error.
advancePointsAsNoErr(t, ms, ft) ==
  IF t.cols[valueColIdx + 1].Type /= PointsValueType(ft)
  THEN [t |-> t, ms |-> ms, ret |-> FALSE]
  ELSE appendPoints(t, MsNext(ms))

\* The Points cases of advance() that take the frame of another type off the
\* cursor before they return false.
advancePointsAsTakeConflict(t, ms, ft) ==
  IF t.cols[valueColIdx + 1].Type /= PointsValueType(ft)
  THEN [t |-> [t EXCEPT !.err = "value type changed"], ms |-> MsNext(ms).ms,
        ret |-> FALSE]
  ELSE appendPoints(t, MsNext(ms))

\* The Points cases of the switch of advance: ft is the type of the frame at
\* the head of ms.
advancePoints(t, ms, ft) ==
  IF t.cols[valueColIdx + 1].Type /= PointsValueType(ft)
  THEN [t |-> [t EXCEPT !.err = "value type changed"], ms |-> ms, ret |-> FALSE]
  ELSE appendPoints(t, MsNext(ms))

\* The Series case of the switch of advance, after the key comparison: t1 is
\* the table with the tags of the frame read, nx the result of ms.next().
advanceSeries(t1, nx) ==
  IF t1.readSpec.PointsLimit = -1
  THEN [t |-> [t1 EXCEPT !.l = 0, !.page = NoPage], ms |-> nx.ms, ret |-> TRUE]
  ELSE TableAdvance(t1, nx.ms)

\* The switch of advance on the frame p at the head of ms.
advanceFrame(t, ms, p) ==
  CASE readFrameType(p) = "groupType" -> [t |-> t, ms |-> ms, ret |-> FALSE]
    [] readFrameType(p) = "seriesType" ->
         IF ~KeyEqual(MsKey(ms), t.key)
         THEN [t |-> t, ms |-> ms, ret |-> FALSE]
         ELSE advanceSeries(readTags(t, p.Tags), MsNext(ms))
    [] OTHER -> advancePoints(t, ms, readFrameType(p))

\* One test of the loop condition of advance: r is the result of ms.more().
advanceLoop(t, r) ==
  IF ~r.ret THEN [t |-> t, ms |-> r.ms, ret |-> FALSE]
  ELSE advanceFrame(t, r.ms, MsPeek(r.ms))

\* table.advance; ret is its result, ms the merge cursor it leaves behind.
TableAdvance(t, ms) == advanceLoop(t, MsMore(ms))

\* The end of newTable: more holds the result a of the priming advance.
primedTable(a) == [t |-> [a.t EXCEPT !.more = a.ret], ms |-> a.ms]

newTable(bnds, key, cols, ms, readSpec, tags, defs) ==
  primedTable(
    TableAdvance(
      readTags([bounds |-> bnds, key |-> key, cols |-> cols, defs |-> defs,
                tags |-> [j \in 1..Len(cols) |-> Nil], readSpec |-> readSpec,
                empty |-> TRUE, more |-> FALSE, done |-> FALSE, err |-> "nil",
                l |-> 0, colBufs |-> [j \in 1..Len(cols) |-> NilBuf],
                cap |-> NoBufs, alloc |-> NoAlloc, page |-> NoPage], tags),
      ms))

\* wait() that does not block.
TableWaitAsNoBlock(t) == TRUE

\* table.wait returns once the done channel is closed.
TableWait(t) == t.done

NoTable ==
  [bounds |-> bounds, key |-> NilKey, cols |-> <<>>, defs |-> <<>>,
   tags |-> <<>>, readSpec |-> [PointsLimit |-> 0], empty |-> TRUE,
   more |-> FALSE, done |-> FALSE, err |-> "nil", l |-> 0, colBufs |-> <<>>,
   cap |-> NoBufs, alloc |-> NoAlloc, page |-> NoPage]

\* ---------------------------------------------------------- tableIterator
\* The call of the visitor with the table nt that newTable has built from
\* the announcement frame ann.
visitTable(nt, ann) ==
  [pc |-> "visit", ret |-> "none", ms |-> nt.ms, table |-> nt.t, ann |-> ann]

\* The body of the loop of handleRead after ms.next() has returned nx: the
\* Series frame gives the value type, the group key and the columns.
readSeries(bi, nx) ==
  LET s == nx.frame
      cd == determineTableColsForSeries(s, convertDataType(s.DataType))
  IN visitTable(newTable(bi.bounds,
                         groupKeyForSeries(s, bi.readSpec, bi.bounds),
                         cd.cols, nx.ms, bi.readSpec, s.Tags, cd.defs), s)

\* A turn of handleRead that takes the boundary frame with next() before it
\* checks its type.
seriesTurnAsNextBeforeCheck(bi, r) ==
  IF ~r.ret
  THEN [pc |-> "done", ret |-> "nil", ms |-> r.ms, table |-> NoTable]
  ELSE IF readFrameType(MsPeek(r.ms)) /= "seriesType"
  THEN [pc |-> "done", ret |-> "internal error: short read",
        ms |-> MsNext(r.ms).ms, table |-> NoTable]
  ELSE readSeries(bi, MsNext(r.ms))

\* A turn of handleRead that leaves the loop on a wrong boundary frame and
\* returns nil.
seriesTurnAsBreakOnShortRead(bi, r) ==
  IF ~r.ret
  THEN [pc |-> "done", ret |-> "nil", ms |-> r.ms, table |-> NoTable]
  ELSE IF readFrameType(MsPeek(r.ms)) /= "seriesType"
  THEN [pc |-> "done", ret |-> "nil", ms |-> r.ms, table |-> NoTable]
  ELSE readSeries(bi, MsNext(r.ms))

\* One turn of the loop of handleRead once ms.more() has returned r.
seriesTurn(bi, r) ==
  IF ~r.ret
  THEN [pc |-> "done", ret |-> "nil", ms |-> r.ms, table |-> NoTable]
  ELSE IF readFrameType(MsPeek(r.ms)) /= "seriesType"
  THEN [pc |-> "done", ret |-> "internal error: short read", ms |-> r.ms,
        table |-> NoTable]
  ELSE readSeries(bi, MsNext(r.ms))

\* One turn of the loop of handleRead, from the loop condition to the call
\* of the visitor (pc "visit") or to the return (pc "done").
handleRead(bi, ms) == seriesTurn(bi, MsMore(ms))

\* The value type handleGroupRead takes from the frame p behind the Group frame.
groupValueType(p) ==
  IF readFrameType(p) = "seriesType" THEN convertDataType(p.DataType)
  ELSE "TString"

\* The body of the loop of handleGroupRead after ms.next() has returned nx;
\* the look-ahead peek panics when the Group frame was the last frame of the
\* buffer.
readGroup(bi, nx) ==
  IF MsPeekPanics(nx.ms)
  THEN [pc |-> "panic", ret |-> "none", ms |-> nx.ms, table |-> NoTable]
  ELSE LET cd == determineTableColsForGroup(nx.frame,
                                            groupValueType(MsPeek(nx.ms)))
       IN visitTable(newTable(bi.bounds,
                              groupKeyForGroup(nx.frame, bi.readSpec, bi.bounds),
                              cd.cols, nx.ms, bi.readSpec, <<>>, cd.defs),
                     nx.frame)

\* One turn of the loop of handleGroupRead once ms.more() has returned r.
groupTurn(bi, r) ==
  IF ~r.ret
  THEN [pc |-> "done", ret |-> "nil", ms |-> r.ms, table |-> NoTable]
  ELSE IF readFrameType(MsPeek(r.ms)) /= "groupType"
  THEN [pc |-> "done", ret |-> "internal error: short read", ms |-> r.ms,
        table |-> NoTable]
  ELSE readGroup(bi, MsNext(r.ms))

\* One turn of the loop of handleGroupRead.
handleGroupRead(bi, ms) == groupTurn(bi, MsMore(ms))

\* A loop that drops the visitor's error and goes on to wait().
AfterVisitorAsIgnoreErr(e) == [pc |-> "wait", ret |-> "none"]

\* The loop after the visitor has returned e.
AfterVisitor(e) ==
  IF e /= "nil" THEN [pc |-> "done", ret |-> e]
  ELSE [pc |-> "wait", ret |-> "none"]

\* One turn of the decode loop Do has chosen for the request's grouping.
LoopTurn(bi, ms) ==
  IF convertGroupMode(bi.readSpec.GroupMode) /= "GroupAll"
  THEN handleGroupRead(bi, ms)
  ELSE handleRead(bi, ms)

\* strings.ToUpper, on the aggregate method names of the reads.
ToUpper(s) ==
  CASE s = "sum" -> "SUM"
    [] s = "none" -> "NONE"
    [] s = "bogus" -> "BOGUS"
    [] OTHER -> s

\* ostorage.Aggregate_AggregateType_value: the aggregate types by name.
Aggregate_AggregateType_value ==
  [NONE |-> "AggregateTypeNone", SUM |-> "AggregateTypeSum",
   COUNT |-> "AggregateTypeCount"]

\* determineAggregateMethod that takes an unknown name for no aggregate.
determineAggregateMethodAsLenient(agg) ==
  IF agg = "" THEN [agg |-> "AggregateTypeNone", err |-> "nil"]
  ELSE IF ToUpper(agg) \in DOMAIN Aggregate_AggregateType_value
  THEN [agg |-> Aggregate_AggregateType_value[ToUpper(agg)], err |-> "nil"]
  ELSE [agg |-> "AggregateTypeNone", err |-> "nil"]

determineAggregateMethod(agg) ==
  IF agg = "" THEN [agg |-> "AggregateTypeNone", err |-> "nil"]
  ELSE IF ToUpper(agg) \in DOMAIN Aggregate_AggregateType_value
  THEN [agg |-> Aggregate_AggregateType_value[ToUpper(agg)], err |-> "nil"]
  ELSE [agg |-> "AggregateTypeNone", err |-> "unknown aggregate type"]

\* A request whose no-points hint is set for every non-positive points limit.
ReadRequestAsHintOnNoLimit(bi) ==
  [TimestampRange |-> [Start |-> bi.bounds.Start, End |-> bi.bounds.Stop],
   Group |-> convertGroupMode(bi.readSpec.GroupMode),
   GroupKeys |-> bi.readSpec.GroupKeys,
   PointsLimit |-> bi.readSpec.PointsLimit,
   Hints |-> [NoPoints |-> bi.readSpec.PointsLimit <= 0],
   Aggregate |-> <<>>]

\* The request Do sets up before it looks at the aggregate method; the
\* Aggregate pointer is the empty sequence while it is nil.
ReadRequest(bi) ==
  [TimestampRange |-> [Start |-> bi.bounds.Start, End |-> bi.bounds.Stop],
   Group |-> convertGroupMode(bi.readSpec.GroupMode),
   GroupKeys |-> bi.readSpec.GroupKeys,
   PointsLimit |-> bi.readSpec.PointsLimit,
   Hints |-> [NoPoints |-> bi.readSpec.PointsLimit = -1],
   Aggregate |-> <<>>]

\* The request with the aggregate type agg that determineAggregateMethod found.
WithAggregate(req, agg) ==
  IF agg /= "AggregateTypeNone"
  THEN [req EXCEPT !.Aggregate = <<[Type |-> agg]>>]
  ELSE req

\* The host filter of Do that skips the connections the allow-list names.
SelectedAsExcluded(c, hosts) ==
  Len(hosts) = 0 \/ ~\E h \in 1..Len(hosts) : c.host = hosts[h]

\* The host filter of Do: with a non-empty allow-list only the connections
\* whose host is in the list are queried.
Selected(c, hosts) ==
  Len(hosts) = 0 \/ \E h \in 1..Len(hosts) : c.host = hosts[h]

RECURSIVE RecvMsgCalls(_, _, _)
\* The calls of RecvMsg made so far on the streams from index j on: the
\* messages taken from each and the call that met its end.
RecvMsgCalls(bi, streams, j) ==
  IF j > Len(streams) THEN 0
  ELSE (Len(bi.conns[streams[j].conn].client.msgs) - Len(streams[j].stream.msgs))
       + (IF streams[j].finished THEN 1 ELSE 0)
       + RecvMsgCalls(bi, streams, j + 1)

\* The streamState Do builds for the stream that connection c has opened
\* with request req; opened are the streams opened before it (conn, req and
\* before are history fields: before counts the receives made on the earlier
\* streams when this one was opened).
NewStream(bi, req, c, opened) ==
  [bounds |-> bi.bounds, stream |-> bi.conns[c].client,
   Frames |-> <<>>, currentKey |-> NilKey,
   readSpec |-> bi.readSpec, finished |-> FALSE,
   group |-> req.Group /= "GroupAll",
   rcvd |-> <<>>, conn |-> c, req |-> req,
   before |-> RecvMsgCalls(bi, opened, 1)]

RECURSIVE OpenFromAsReceiveFirst(_, _, _, _)
\* A loop over the connections that receives the first message of a stream
\* as soon as it is opened.
OpenFromAsReceiveFirst(bi, req, c, streams) ==
  IF c > Len(bi.conns) THEN [streams |-> streams, err |-> "nil"]
  ELSE IF ~Selected(bi.conns[c], bi.readSpec.Hosts)
  THEN OpenFromAsReceiveFirst(bi, req, c + 1, streams)
  ELSE IF bi.conns[c].client.open /= "nil"
  THEN [streams |-> streams, err |-> bi.conns[c].client.open]
  ELSE OpenFromAsReceiveFirst(bi, req, c + 1,
         Append(streams, StreamMore(NewStream(bi, req, c, streams)).s))

RECURSIVE OpenFromAsSkipFailed(_, _, _, _)
\* A loop over the connections that skips a connection whose stream fails
\* to open.
OpenFromAsSkipFailed(bi, req, c, streams) ==
  IF c > Len(bi.conns) THEN [streams |-> streams, err |-> "nil"]
  ELSE IF ~Selected(bi.conns[c], bi.readSpec.Hosts)
  THEN OpenFromAsSkipFailed(bi, req, c + 1, streams)
  ELSE IF bi.conns[c].client.open /= "nil"
  THEN OpenFromAsSkipFailed(bi, req, c + 1, streams)
  ELSE OpenFromAsSkipFailed(bi, req, c + 1, Append(streams, NewStream(bi, req, c, streams)))

RECURSIVE OpenFrom(_, _, _, _)
\* The loop of Do over the connections, from connection c on: streams are
\* the streams opened so far.
OpenFrom(bi, req, c, streams) ==
  IF c > Len(bi.conns) THEN [streams |-> streams, err |-> "nil"]
  ELSE IF ~Selected(bi.conns[c], bi.readSpec.Hosts)
  THEN OpenFrom(bi, req, c + 1, streams)
  ELSE IF bi.conns[c].client.open /= "nil"
  THEN [streams |-> streams, err |-> bi.conns[c].client.open]
  ELSE OpenFrom(bi, req, c + 1, Append(streams, NewStream(bi, req, c, streams)))

\* The streams tableIterator.Do opens, one per selected connection.
OpenStreams(bi, req) == OpenFrom(bi, req, 1, <<>>)

\* The merge cursor Do builds over the opened streams o (i is a zero value,
\* currentKey nil), or the error that opening a stream gave.
MergeOver(o) ==
  [ms |-> [streams |-> o.streams, currentKey |-> NilKey, i |-> 0, out |-> <<>>],
   err |-> o.err]

\* Do up to its dispatch to a decode loop, a the result of
\* determineAggregateMethod: the error Do returns at once, or the merge
\* cursor the loop runs over.
DispatchWith(bi, a) ==
  IF a.err /= "nil"
  THEN [ms |-> [streams |-> <<>>, currentKey |-> NilKey, i |-> 0, out |-> <<>>],
        err |-> a.err]
  ELSE MergeOver(OpenStreams(bi, WithAggregate(ReadRequest(bi), a.agg)))

Dispatch(bi) ==
  DispatchWith(bi, determineAggregateMethod(bi.readSpec.AggregateMethod))

\* ---------------------------------------------------------------- table.Do
\* A Do that returns from an empty table without closing the done channel.
TableDoEnterAsNoClose(t) ==
  IF ~t.more
  THEN [t |-> t, rd |-> [st |-> "returned", first |-> FALSE, ret |-> t.err]]
  ELSE [t |-> t, rd |-> [st |-> "callback", first |-> TRUE, ret |-> "none"]]

\* table.Do up to its first call of the column callback, or to its return
\* when the priming advance found no page.
TableDoEnter(t) ==
  IF ~t.more
  THEN [t |-> [t EXCEPT !.done = TRUE],
        rd |-> [st |-> "returned", first |-> FALSE, ret |-> t.err]]
  ELSE [t |-> t, rd |-> [st |-> "callback", first |-> TRUE, ret |-> "none"]]

\* The loop condition of table.Do: a is the result of advance().
Advanced(a) ==
  IF a.ret
  THEN [t |-> a.t, ms |-> a.ms,
        rd |-> [st |-> "callback", first |-> FALSE, ret |-> "none"]]
  ELSE [t |-> [a.t EXCEPT !.done = TRUE], ms |-> a.ms,
        rd |-> [st |-> "returned", first |-> FALSE, ret |-> a.t.err]]

\* table.Do from the return e of the column callback to the next call of the
\* callback or to the return of Do (the deferred close(t.done) included).
\* The result of the callback on the first page is dropped.
TableDoResume(t, ms, rd, e) ==
  IF ~rd.first /\ e /= "nil"
  THEN [t |-> [t EXCEPT !.done = TRUE], ms |-> ms,
        rd |-> [st |-> "returned", first |-> FALSE, ret |-> e]]
  ELSE Advanced(TableAdvance(t, ms))

\* ------------------------------------------------------------------ inputs
\* The grouping modes of storage.ReadSpec.  A node answers a request whose
\* Group is not GroupAll with a Group frame in front of each partition.
GroupModes == {"GroupModeAll", "GroupModeBy", "GroupModeNone",
               "GroupModeExcept", "GroupModeDefault"}

PointsFrameType(dt) ==
  CASE dt = "DataTypeFloat" -> "floatPointsType"
    [] dt = "DataTypeInteger" -> "intPointsType"
    [] dt = "DataTypeUnsigned" -> "uintPointsType"
    [] dt = "DataTypeBoolean" -> "boolPointsType"
    [] dt = "DataTypeString" -> "stringPointsType"

\* The tags of a series with tag value v: tagA carries v, the further tags
\* (tagB, tagC) carry the same value on every series.
SeriesTags(v, ntags) ==
  [j \in 1..ntags |-> [Key |-> LabelOrder[4 + j],
                       Value |-> IF j = 1 THEN v ELSE MaxKey + j]]

\* The number of points in a Points frame of connection c for tag value v:
\* one or two, so that over the connections the pages of one key grow and
\* those of the next shrink.
PointCount(c, v) == 1 + ((c + v) % 2)

\* A series of a node's response: the Series frame announcing dt with the
\* given tags, then np Points frames of type pdt, each with PointCount(c, v)
\* points.
SeriesRun(c, v, dt, pdt, np, tags) ==
  <<[ft |-> "seriesType", Tags |-> tags, DataType |-> dt, k |-> v, c |-> c]>>
  \o [j \in 1..np |-> [ft |-> PointsFrameType(pdt),
                       Timestamps |-> [h \in 1..PointCount(c, v) |-> h],
                       Values |-> [h \in 1..PointCount(c, v) |-> v],
                       k |-> v, c |-> c]]

\* The frames a storage node sends for one tag value v: in group mode a
\* Group frame, then in both modes a series with all the tags.  A group
\* over series with further tags holds a second series, which carries tagA
\* only.
Block(c, v, dt, pdt, np, ntags, grouping) ==
  (IF grouping
   THEN <<[ft |-> "groupType",
           TagKeys |-> [j \in 1..ntags |-> LabelOrder[4 + j]],
           PartitionKeyVals |-> <<v>>, k |-> v, c |-> c]>>
   ELSE <<>>)
  \o SeriesRun(c, v, dt, pdt, np, SeriesTags(v, ntags))
  \o (IF grouping /\ ntags >= 2
      THEN SeriesRun(c, v, dt, pdt, np, SeriesTags(v, 1))
      ELSE <<>>)

RECURSIVE Blocks(_, _, _, _, _, _, _, _)
Blocks(c, keys, v, dt, pdt, np, ntags, grouping) ==
  IF v > MaxKey THEN <<>>
  ELSE (IF v \in keys THEN Block(c, v, dt, pdt, np, ntags, grouping) ELSE <<>>)
         \o Blocks(c, keys, v + 1, dt, pdt, np, ntags, grouping)

Numbered(fs) == [j \in 1..Len(fs) |-> fs[j] @@ [id |-> j]]

RECURSIVE Chunk(_, _)
Chunk(fs, b) ==
  IF Len(fs) = 0 THEN <<>>
  ELSE IF Len(fs) <= b THEN <<fs>>
  ELSE <<SubSeq(fs, 1, b)>> \o Chunk(SubSeq(fs, b + 1, Len(fs)), b)

InsertEmpty(msgs, pos) ==
  LET q == IF pos > Len(msgs) THEN Len(msgs) ELSE pos
  IN SubSeq(msgs, 1, q) \o << <<>> >> \o SubSeq(msgs, q + 1, Len(msgs))

\* The response of connection c: the result of opening the RPC stream
\* (client.Read), the messages RecvMsg will deliver and the error that ends
\* the stream.
ResponseStream(c, keys, dt, pdt, np, ntags, grouping, b, emptyPos, end, open) ==
  LET msgs == Chunk(Numbered(Blocks(c, keys, 1, dt, pdt, np, ntags, grouping)), b)
  IN [msgs |-> IF emptyPos >= 0 THEN InsertEmpty(msgs, emptyPos) ELSE msgs,
      end |-> end, open |-> open]

\* The host allow-lists of the reads: at most two hosts, host N + 1 being a
\* host no connection of the reader has.
HostLists(N) ==
  {<<>>} \cup {<<h>> : h \in 1..(N + 1)}
         \cup {p \in (1..N) \X (2..(N + 1)) : p[1] < p[2]}

AggregateMethods == {"", "sum", "none", "bogus"}

\* How far a read departs from the plain read: float values on every
\* connection, no empty batch, every stream ending in io.EOF and opening
\* without error, no allow-list, no aggregate, one tag, grouping mode All
\* or By.
Anomalies(T, U, emptyC, errC, hosts, openC, agg, ntags, mode) ==
  (IF <<T, U>> /= <<"DataTypeFloat", "DataTypeFloat">> THEN 1 ELSE 0)
  + (IF emptyC /= 0 THEN 1 ELSE 0)
  + (IF errC /= 0 THEN 1 ELSE 0)
  + (IF hosts /= <<>> THEN 1 ELSE 0)
  + (IF openC /= 0 THEN 1 ELSE 0)
  + (IF agg /= "" THEN 1 ELSE 0)
  + (IF ntags /= 1 THEN 1 ELSE 0)
  + (IF mode \notin {"GroupModeAll", "GroupModeBy"} THEN 1 ELSE 0)

\* ------------------------------------------------------------------- state
VARIABLES
  bi,      \* the tableIterator: readSpec, bounds, conns (with each node's response)
  pc,      \* where the read stands: new, start (Read has returned), visit, wait, done, panic
  ret,     \* what Do returned ("none" while it runs)
  ms,      \* the mergedStreams Do built
  tbl,     \* the table last handed to the visitor
  rd,      \* the call of tbl.Do: idle, callback (inside the column callback), returned
  visits,  \* history: the tables handed to the visitor (key, value type, Err(),
           \* announcement frame, Cols(), the visitor's result) and the pages each yielded
  turns    \* history: the loop turns Do has run

vars == <<bi, pc, ret, ms, tbl, rd, visits, turns>>

NoCursor == [streams |-> <<>>, currentKey |-> NilKey, i |-> 0, out |-> <<>>]

IdleRd == [st |-> "idle", first |-> FALSE, ret |-> "none"]

\* The inputs of a read: T is the value type the nodes announce and send;
\* the last connection announces and sends U instead or, with mis, announces
\* T and sends Points frames of type U.  One connection may get an empty
\* batch at emptyPos, one may end in a transport error instead of io.EOF,
\* one may fail to open its stream.  bi holds the reader's connections and
\* the arguments of Read (readSpec, start, stop); the predicate is nil.
Init ==
  \E N \in 1..MaxConns, mode \in GroupModes, b \in 1..MaxBatch,
     np \in 0..MaxPts, pl \in {-1, 0}, ntags \in 1..MaxTags :
    /\ pl = -1 => np = 0
    /\ \E T \in DataTypes, U \in DataTypes, mis \in BOOLEAN,
          emptyC \in 0..N, errC \in 0..N, openC \in 0..N,
          hosts \in HostLists(N), agg \in AggregateMethods :
         /\ mis => (U /= T /\ np > 0)
         /\ (N = 1 /\ ~mis) => U = T
         /\ Anomalies(T, U, emptyC, errC, hosts, openC, agg, ntags, mode) <= MaxAnomalies
         /\ \E emptyPos \in 0..MaxEmptyPos, keys \in [1..N -> SUBSET (1..MaxKey)] :
              /\ emptyC = 0 => emptyPos = 0
              /\ bi = [readSpec |->
                         [GroupMode |-> mode,
                          GroupKeys |-> IF convertGroupMode(mode) = "GroupAll" THEN <<>>
                                        ELSE <<"tagA">>,
                          PointsLimit |-> pl,
                          Hosts |-> hosts,
                          AggregateMethod |-> agg],
                       bounds |-> bounds,
                       conns |-> [c \in 1..N |->
                          [host |-> c,
                           client |-> ResponseStream(
                              c, keys[c],
                              IF N >= 2 /\ c = N /\ ~mis THEN U ELSE T,
                              IF c = N /\ (N >= 2 \/ mis) THEN U ELSE T, np,
                              ntags, convertGroupMode(mode) /= "GroupAll", b,
                              IF emptyC = c THEN emptyPos ELSE -1,
                              IF errC = c THEN "err" ELSE "EOF",
                              IF openC = c THEN "open error" ELSE "nil")]]]
    /\ pc = "new"
    /\ ret = "none"
    /\ ms = NoCursor
    /\ tbl = NoTable
    /\ rd = IdleRd
    /\ visits = <<>>
    /\ turns = 0

\* ----------------------------------------------------------------- actions
\* The iterator lands in the visitor or returns: r is the outcome of the turn.
Land(r) ==
  /\ pc' = r.pc
  /\ ret' = r.ret
  /\ ms' = r.ms
  /\ turns' = turns + 1
  /\ IF r.pc = "visit"
     THEN /\ tbl' = r.table
          /\ rd' = IdleRd
          /\ visits' = Append(visits, [key |-> r.table.key,
                                       typ |-> r.table.cols[valueColIdx + 1].Type,
                                       err |-> r.table.err,
                                       ann |-> r.ann,
                                       cols |-> r.table.cols,
                                       ret |-> "none",
                                       pages |-> <<>>])
     ELSE UNCHANGED <<tbl, rd, visits>>
  /\ UNCHANGED bi

\* The iterator runs one loop turn over the merge cursor m.
Turn(m) == Land(LoopTurn(bi, m))

\* reader.Read returns the tableIterator over the reader's connections and
\* a nil error (the predicate of the reads is nil).
Read ==
  /\ pc = "new"
  /\ pc' = "start"
  /\ UNCHANGED <<bi, ret, ms, tbl, rd, visits, turns>>

\* Do returns e before it has built the merge cursor.
ReturnEarly(e) ==
  /\ pc' = "done"
  /\ ret' = e
  /\ UNCHANGED <<bi, ms, tbl, rd, visits, turns>>

\* Do after its dispatch d: the error is returned, or the decode loop is
\* entered.
Dispatched(d) == IF d.err /= "nil" THEN ReturnEarly(d.err) ELSE Turn(d.ms)

\* tableIterator.Do is called: the request is set up, the streams are
\* opened and the loop is entered.
DoCall ==
  /\ pc = "start"
  /\ Dispatched(Dispatch(bi))

\* The visitor f(table) returns e to the loop: a non-nil e is returned by
\* Do at once, nil takes the loop to table.wait().
VisitorReturns ==
  /\ pc = "visit"
  /\ \E e \in {"nil", "visitor error"}
             \cup (IF rd.st = "returned" THEN {rd.ret} ELSE {}) :
       /\ pc' = AfterVisitor(e).pc
       /\ ret' = AfterVisitor(e).ret
       /\ visits' = [visits EXCEPT ![Len(visits)].ret = e]
  /\ UNCHANGED <<bi, ms, tbl, rd, turns>>

\* table.wait() returns and the loop runs its next turn.
WaitReturns ==
  /\ pc = "wait"
  /\ TableWait(tbl)
  /\ Turn(ms)

\* What the column callback is handed: the page with Len(), Cols() and the
\* column buffers.
Yield(t) == t.page @@ [l |-> t.l, cols |-> t.cols, colBufs |-> t.colBufs]

\* The visitor, or a goroutine it handed the table to, calls table.Do.
TableDo ==
  /\ pc \in {"visit", "wait", "done"}
  /\ Len(visits) > 0
  /\ rd.st = "idle"
  /\ LET r == TableDoEnter(tbl)
     IN /\ tbl' = r.t
        /\ rd' = r.rd
        /\ visits' = IF r.rd.st = "callback"
                     THEN [visits EXCEPT ![Len(visits)].pages =
                             Append(@, Yield(r.t))]
                     ELSE visits
  /\ UNCHANGED <<bi, pc, ret, ms, turns>>

\* table.Do goes on after the callback: r is the outcome of TableDoResume.
Resume(r) ==
  /\ tbl' = r.t
  /\ ms' = r.ms
  /\ rd' = r.rd
  /\ visits' = IF r.rd.st = "callback"
               THEN [visits EXCEPT ![Len(visits)].pages = Append(@, Yield(r.t))]
               ELSE visits

\* The column callback returns e to table.Do.
ColReaderReturns ==
  /\ pc \in {"visit", "wait", "done"}
  /\ rd.st = "callback"
  /\ \E e \in {"nil", "callback error"} : Resume(TableDoResume(tbl, ms, rd, e))
  /\ UNCHANGED <<bi, pc, ret, turns>>

Next ==
  \/ Read
  \/ DoCall
  \/ VisitorReturns
  \/ WaitReturns
  \/ TableDo
  \/ ColReaderReturns

Spec == Init /\ [][Next]_vars

\* The guards of the steps, as the actions state them.
DoCallEnabled == pc = "start"

WaitReturnsEnabled == pc = "wait" /\ TableWait(tbl)

TableDoEnabled == pc \in {"visit", "wait", "done"} /\ Len(visits) > 0 /\ rd.st = "idle"

ColReaderReturnsEnabled == pc \in {"visit", "wait", "done"} /\ rd.st = "callback"

\* A step of ColReaderReturns, told by what it starts from and leaves alone.
ColReaderStep == ColReaderReturnsEnabled /\ pc' = pc /\ turns' = turns

\* The read under a caller that calls Do, a visitor that returns and runs
\* table.Do to completion with a column callback that returns, and a loop
\* that goes on: no step that is possible is put off forever.  Every
\* conjunct is the weak fairness of one action of Next.  For DoCall,
\* WaitReturns, TableDo and ColReaderReturns it is written out as
\* []<>~ENABLED \/ []<><<A>>_vars with the guard of the action in place of
\* ENABLED; the first three leave their own guard false, so that a step of
\* theirs is a state in which they are disabled.
FairSpec ==
  /\ Spec
  /\ WF_vars(Read)
  /\ WF_vars(VisitorReturns)
  /\ []<>~DoCallEnabled
  /\ []<>~WaitReturnsEnabled
  /\ []<>~TableDoEnabled
  /\ ([]<>~ColReaderReturnsEnabled \/ []<><<ColReaderStep>>_vars)

\* ------------------------------------------------ groupKeyForSeries alone
\* The tag lists of a series frame: the tags with a key in S, sorted by key
\* as the storage node sends them.
TagList(S) ==
  SelectSeq([j \in 1..(Len(LabelOrder) - 4) |->
               [Key |-> LabelOrder[4 + j], Value |-> j]],
            LAMBDA t : t.Key \in S)

TagLists == {TagList(S) : S \in SUBSET {"tagA", "tagB", "tagC"}}

\* The GroupKeys lists of a read spec: up to MaxGroupKeys tag names.
GroupKeyLists ==
  UNION {[1..n -> {"tagA", "tagB", "tagC"}] : n \in 0..MaxGroupKeys}

\* The series frame groupKeyForSeries is called with.
KeySeries == bi.conns[1].client.msgs[1][1]

\* A read spec and a series frame for a call of groupKeyForSeries.
KeyInit ==
  /\ \E mode \in {"GroupModeBy", "GroupModeExcept", "GroupModeAll",
                  "GroupModeDefault"},
        gk \in GroupKeyLists, tags \in TagLists :
       bi = [readSpec |-> [GroupMode |-> mode, GroupKeys |-> gk,
                           PointsLimit |-> 0, Hosts |-> <<>>,
                           AggregateMethod |-> ""],
             bounds |-> bounds,
             conns |-> <<[host |-> 1,
                          client |-> [msgs |-> <<SeriesRun(1, 1, "DataTypeFloat",
                                                           "DataTypeFloat", 0, tags)>>,
                                      end |-> "EOF", open |-> "nil"]]>>]
  /\ pc = "new"
  /\ ret = "none"
  /\ ms = NoCursor
  /\ tbl = NoTable
  /\ rd = IdleRd
  /\ visits = <<>>
  /\ turns = 0

\* groupKeyForSeries is called with the series frame, the read spec and the
\* bounds: it panics, or its key is the key of the table.
KeyForSeries ==
  /\ pc = "new"
  /\ IF groupKeyForSeriesPanics(KeySeries, bi.readSpec)
     THEN /\ pc' = "panic"
          /\ tbl' = tbl
     ELSE /\ pc' = "key"
          /\ tbl' = [NoTable EXCEPT
                       !.key = groupKeyForSeries(KeySeries, bi.readSpec, bi.bounds)]
  /\ UNCHANGED <<bi, ret, ms, rd, visits, turns>>

KeyNext == KeyForSeries

KeySpec == KeyInit /\ [][KeyNext]_vars

\* ------------------------------------------------------- history helpers
\* The frames stream c of the merge cursor has not handed out yet: buffered
\* or still to be received.
RECURSIVE Flatten(_)
Flatten(msgs) == IF msgs = <<>> THEN <<>> ELSE Head(msgs) \o Flatten(Tail(msgs))

Unconsumed(c) == ms.streams[c].Frames \o Flatten(ms.streams[c].stream.msgs)

Range(f) == {f[j] : j \in DOMAIN f}

\* The frames the merge cursor has returned from its stream c.
OutOf(c) == SelectSeq(ms.out, LAMBDA f : f.c = ms.streams[c].conn)

NonDecreasingKeys(fs) == \A j \in 1..(Len(fs) - 1) : fs[j].k <= fs[j + 1].k

NoEmptyBatch ==
  \A c \in 1..Len(bi.conns) : \A j \in 1..Len(bi.conns[c].client.msgs) :
     bi.conns[c].client.msgs[j] /= <<>>

\* ------------------------------------------------------------------ claims
\* C1: with two or more connections, each sorted by GroupKey, the keys of
\* the frames mergedStreams.next() returns never decrease, and no frame is
\* returned while a connection still holds an unconsumed frame of a smaller
\* key.
C1_MergeOrder ==
  Len(ms.streams) >= 2 =>
    /\ NonDecreasingKeys(ms.out)
    /\ Len(ms.out) > 0 =>
         \A c \in 1..Len(ms.streams) : \A f \in Range(Unconsumed(c)) :
            f.k >= ms.out[Len(ms.out)].k

\* The merge order of C1 on responses without an empty batch.
MergeOrderWithoutEmptyBatch == NoEmptyBatch => C1_MergeOrder

\* Every frame received so far, on any connection.
Received == UNION {Range(ms.streams[c].rcvd) : c \in 1..Len(ms.streams)}

IsPoints(f) == f.ft \in PointsTypes

IsAnnouncement(f) ==
  f.ft = (IF convertGroupMode(bi.readSpec.GroupMode) /= "GroupAll"
          THEN "groupType" ELSE "seriesType")

VisitTag(j) == visits[j].key.vs[3]

PointPages(j) ==
  {[c |-> visits[j].pages[h].c, id |-> visits[j].pages[h].id] :
     h \in {h \in 1..Len(visits[j].pages) : visits[j].pages[h].c /= 0}}

SeriesMode == convertGroupMode(bi.readSpec.GroupMode) = "GroupAll"

\* One Table per distinct GroupKey, in ascending order, each yielding the
\* Points frames of every connection that announced its key.
OneTablePerKey ==
  /\ \A j \in 1..(Len(visits) - 1) : VisitTag(j) < VisitTag(j + 1)
  /\ {VisitTag(j) : j \in 1..Len(visits)} =
       {f.k : f \in {g \in Received : IsAnnouncement(g)}}
  /\ \A j \in 1..Len(visits) :
       PointPages(j) = {[c |-> f.c, id |-> f.id] :
                          f \in {g \in Received : IsPoints(g) /\ g.k = VisitTag(j)}}

\* C2: in series mode a read that Do ends with nil has handed the visitor
\* exactly one Table per distinct GroupKey of the connections, in ascending
\* key order, and each Table has yielded the Points frames of every
\* connection that announced its key.
C2_SeriesTables ==
  (SeriesMode /\ pc = "done" /\ ret = "nil") => OneTablePerKey

\* C2 on responses without an empty batch.
SeriesTablesWithoutEmptyBatch == NoEmptyBatch => C2_SeriesTables

\* C3: in group mode a read that Do ends with nil has handed the visitor
\* exactly one Table per distinct GroupKey: a Group frame of the Table's own
\* key, announced by a second connection, does not end the Table.  Stated
\* for responses without an empty batch.
C3_GroupTables ==
  (NoEmptyBatch /\ ~SeriesMode /\ pc = "done" /\ ret = "nil") => OneTablePerKey

\* C4: with exactly one connection the frames the merge cursor has returned,
\* followed by the frames still buffered or to be received, are that
\* connection's raw frame sequence, and mergedStreams.key() is the stream's
\* key().
C4_SingleStream ==
  Len(ms.streams) = 1 =>
    /\ ms.out \o Unconsumed(1) = Flatten(bi.conns[ms.streams[1].conn].client.msgs)
    /\ MsKey(ms) = StreamKey(ms.streams[1])

C4_Witness ==
  /\ Len(ms.streams) = 1
  /\ Len(ms.out) >= 3
  /\ pc = "done"
  /\ ret = "nil"

\* C5: the frames the merge cursor has returned from a connection are the
\* frames received on it, in the order received and each once, up to the
\* frames still buffered; when Do has returned nil every received frame has
\* been returned.
C5_PerConnectionOrder ==
  /\ \A c \in 1..Len(ms.streams) :
        OutOf(c) \o ms.streams[c].Frames = ms.streams[c].rcvd
  /\ (pc = "done" /\ ret = "nil") =>
        \A c \in 1..Len(ms.streams) : OutOf(c) = ms.streams[c].rcvd

C5_Witness ==
  /\ Len(ms.streams) >= 2
  /\ pc = "done"
  /\ ret = "nil"
  /\ \A c \in 1..Len(ms.streams) : Len(OutOf(c)) >= 2

\* C6: once a Table has been handed to the visitor, Do runs no further loop
\* turn (no more/peek/next on the merge cursor, no new Table) before that
\* Table's Do has returned and closed the gate.
C6_TurnsWaitForTable ==
  [][(turns' /= turns /\ Len(visits) > 0) => (rd.st = "returned" /\ tbl.done)]_vars

C6_Witness ==
  /\ Len(visits) >= 2
  /\ pc = "wait"
  /\ rd.st = "callback"
  /\ ~tbl.done

ExpectedAnnouncement == IF SeriesMode THEN "seriesType" ELSE "groupType"

WrongBoundaryFrame ==
  LET r == MsMore(ms)
  IN r.ret /\ readFrameType(MsPeek(r.ms)) /= ExpectedAnnouncement

\* C7: a loop turn that finds a frame other than the expected announcement
\* at the head of the merge cursor makes Do return "internal error: short
\* read", leaves that frame at the head and hands no Table to the visitor,
\* then or later.
C7_ShortRead ==
  [][/\ (turns' /= turns /\ WrongBoundaryFrame) =>
          /\ pc' = "done"
          /\ ret' = "internal error: short read"
          /\ ms'.out = ms.out
          /\ MsPeek(ms') = MsPeek(MsMore(ms).ms)
          /\ visits' = visits
     /\ ret = "internal error: short read" =>
          (Len(visits') = Len(visits) /\ turns' = turns /\ ret' = ret)]_vars

C7_Witness ==
  /\ pc = "done"
  /\ ret = "internal error: short read"
  /\ WrongBoundaryFrame

ConflictAtHead ==
  /\ Len(visits) > 0
  /\ LET r == MsMore(ms)
     IN /\ r.ret
        /\ IsPoints(MsPeek(r.ms))
        /\ KeyEqual(MsKey(r.ms), tbl.key)
        /\ PointsValueType(MsPeek(r.ms).ft) /= tbl.cols[valueColIdx + 1].Type

\* C8: a Points frame whose type is not the Table's frozen value type makes
\* advance() return false with Err() set and the frame left unconsumed, it is
\* never taken as a page, and every further advance() of that Table returns
\* false again.
C8_TypeConflict ==
  /\ tbl.err /= "nil" =>
       /\ ConflictAtHead
       /\ ~tbl.more \/ (rd.st = "returned" /\ rd.ret = tbl.err)
  /\ ConflictAtHead =>
       LET a == TableAdvance(tbl, ms)
           a2 == TableAdvance(a.t, a.ms)
       IN /\ ~a.ret
          /\ a.t.err /= "nil"
          /\ a.ms.out = ms.out
          /\ ~a2.ret
          /\ a2.ms.out = ms.out
  /\ tbl.page.c /= 0 =>
       PointsValueType(tbl.page.ft) = tbl.cols[valueColIdx + 1].Type

C8_Witness ==
  /\ tbl.err /= "nil"
  /\ tbl.more
  /\ rd.st = "returned"
  /\ tbl.cols[valueColIdx + 1].Type = "TFloat"
  /\ MsPeek(ms).ft = "intPointsType"

\* C9: a Table on which a type conflict is recorded is handed to the
\* visitor, no Table is handed to the visitor after it, and a Do that
\* returns after the conflict returns a non-nil error.
C9_ConflictEndsRead ==
  [][/\ tbl.err /= "nil" =>
          (Len(visits') = Len(visits) /\ tbl'.err /= "nil")
     /\ tbl'.err /= "nil" =>
          /\ Len(visits') > 0
          /\ visits'[Len(visits')].key = tbl'.key
          /\ pc' = "done" =>
               ret' \in {"internal error: short read", "visitor error",
                         "value type changed"}]_vars

C9_Witness ==
  /\ pc = "done"
  /\ ret = "internal error: short read"
  /\ tbl.err /= "nil"
  /\ visits[Len(visits)].err /= "nil"
  /\ visits[Len(visits)].ret = "nil"

VisitorFailed ==
  /\ Len(visits) > 0
  /\ visits[Len(visits)].ret \notin {"none", "nil"}

\* C10: when the visitor returns a non-nil error Do returns that error in
\* the same step, the gate open or not, and from then on Do runs no loop
\* turn and the visitor is not invoked again.
C10_VisitorErrorReturned ==
  [][/\ VisitorFailed' =>
          (pc' = "done" /\ ret' = visits'[Len(visits')].ret)
     /\ VisitorFailed =>
          (turns' = turns /\ Len(visits') = Len(visits))]_vars

C10_Witness ==
  /\ pc = "done"
  /\ ret = "visitor error"
  /\ ~tbl.done
  /\ \E c \in 1..Len(ms.streams) : Len(Unconsumed(c)) > 0

\* The connections Do queries: all of them, or with an allow-list those
\* whose host is in the list.
QueriedConns ==
  SelectSeq([c \in 1..Len(bi.conns) |-> c],
            LAMBDA c : \/ bi.readSpec.Hosts = <<>>
                       \/ bi.conns[c].host \in Range(bi.readSpec.Hosts))

UnknownAggregate ==
  /\ bi.readSpec.AggregateMethod /= ""
  /\ ToUpper(bi.readSpec.AggregateMethod) \notin {"NONE", "SUM", "COUNT"}

OpenFails == \E j \in 1..Len(QueriedConns) :
               bi.conns[QueriedConns[j]].client.open /= "nil"

DoEntered == pc \notin {"new", "start"}

\* C11: when the stream of a selected connection fails to open, Do returns
\* that error, the visitor is not invoked and no frame is received on any
\* connection, the connections opened before the failing one included.
C11_OpenFailure ==
  (DoEntered /\ ~UnknownAggregate /\ OpenFails) =>
     /\ pc = "done"
     /\ ret = "open error"
     /\ visits = <<>>
     /\ Received = {}
     /\ ms.out = <<>>

C11_Witness ==
  /\ pc = "done"
  /\ ret = "open error"
  /\ Len(bi.conns) >= 2
  /\ bi.conns[1].client.open = "nil"
  /\ Len(bi.conns[1].client.msgs) > 0
  /\ bi.conns[2].client.open /= "nil"

\* C12: once Do has opened its streams, they are the streams of exactly the
\* connections whose host is in readSpec.Hosts, or of all connections when
\* Hosts is empty; with an allow-list that matches no connection there is no
\* stream, the visitor is not invoked and Do returns nil.
C12_HostFilter ==
  (DoEntered /\ ~UnknownAggregate /\ ~OpenFails) =>
     /\ [j \in 1..Len(ms.streams) |-> ms.streams[j].conn] = QueriedConns
     /\ QueriedConns = <<>> =>
          (pc = "done" /\ ret = "nil" /\ visits = <<>>)

C12_Witness ==
  /\ bi.readSpec.Hosts = <<2>>
  /\ Len(bi.conns) = 2
  /\ Len(ms.streams) = 1
  /\ Len(visits) >= 1
  /\ pc = "done"
  /\ ret = "nil"

\* C13: a read whose aggregate method is neither empty nor the name of an
\* aggregate type makes Do return an error with no stream opened and the
\* visitor not invoked; with the empty name every stream is opened with a
\* request that has no aggregate.
C13_UnknownAggregate ==
  /\ (DoEntered /\ UnknownAggregate) =>
        /\ pc = "done"
        /\ ret = "unknown aggregate type"
        /\ ms.streams = <<>>
        /\ visits = <<>>
  /\ bi.readSpec.AggregateMethod = "" =>
        \A j \in 1..Len(ms.streams) : ms.streams[j].req.Aggregate = <<>>

C13_Witness ==
  /\ pc = "done"
  /\ ret = "unknown aggregate type"
  /\ \E c \in 1..Len(bi.conns) : Len(bi.conns[c].client.msgs) > 0

\* C14: an unknown aggregate name is rejected by reader.Read: Read returns
\* no iterator for such a read, so the read never gets past Read.
C14_ConfigErrorAtRead == UnknownAggregate => pc = "new"

\* The keys the received announcements carry.
AnnouncedKeys == {f.k : f \in {g \in Received : IsAnnouncement(g)}}

\* C15: with PointsLimit = -1 and no Points frame sent, the Table of every
\* GroupKey is handed to the visitor with its columns, and table.Do calls
\* the column callback for none of them (no page, no row).
C15_NoPointsTables ==
  bi.readSpec.PointsLimit = -1 =>
     /\ \A j \in 1..Len(visits) :
           /\ Len(visits[j].cols) >= 4
           /\ visits[j].pages = <<>>
     /\ (pc = "done" /\ ret = "nil") =>
           {VisitTag(j) : j \in 1..Len(visits)} = AnnouncedKeys

\* C16: every stream is opened with a request whose no-points hint is set
\* exactly when readSpec.PointsLimit is -1.
C16_NoPointsHint ==
  \A j \in 1..Len(ms.streams) :
     ms.streams[j].req.Hints.NoPoints <=> (bi.readSpec.PointsLimit = -1)

C16_Witness ==
  /\ Len(ms.streams) >= 2
  /\ bi.readSpec.PointsLimit = -1
  /\ ms.streams[2].req.Hints.NoPoints
  /\ Len(visits) >= 1

\* The tag keys an announcement frame names: the keys of the tags of a
\* Series frame, the TagKeys of a Group frame.
AnnTagKeys(ann) ==
  IF ann.ft = "seriesType" THEN [j \in 1..Len(ann.Tags) |-> ann.Tags[j].Key]
  ELSE ann.TagKeys

\* The schema of a Table with value type T over the tag keys.
SchemaOf(keys, T) ==
  <<[Label |-> "_start", Type |-> "TTime"], [Label |-> "_stop", Type |-> "TTime"],
    [Label |-> "_time", Type |-> "TTime"], [Label |-> "_value", Type |-> T]>>
  \o [j \in 1..Len(keys) |-> [Label |-> keys[j], Type |-> "TString"]]

FluxTypes == {"TBool", "TInt", "TUInt", "TFloat", "TString"}

\* C17: the Table built from an announcement with N tags (tag keys in group
\* mode) and value type T has the 4 + N columns _start, _stop, _time,
\* _value(T), tag1..tagN in this order when it is handed to the visitor, on
\* every page it yields and after every advance().
C17_Schema ==
  \A j \in 1..Len(visits) :
     LET v == visits[j]
         keys == AnnTagKeys(v.ann)
     IN /\ Len(v.cols) = 4 + Len(keys)
        /\ \E T \in FluxTypes :
              /\ v.ann.ft = "seriesType" =>
                   T = CASE v.ann.DataType = "DataTypeFloat" -> "TFloat"
                         [] v.ann.DataType = "DataTypeInteger" -> "TInt"
                         [] v.ann.DataType = "DataTypeUnsigned" -> "TUInt"
                         [] v.ann.DataType = "DataTypeBoolean" -> "TBool"
                         [] v.ann.DataType = "DataTypeString" -> "TString"
              /\ v.cols = SchemaOf(keys, T)
        /\ \A h \in 1..Len(v.pages) : v.pages[h].cols = v.cols
        /\ j = Len(visits) => tbl.cols = v.cols

C17_Witness ==
  /\ Len(visits) >= 1
  /\ SeriesMode
  /\ Len(tbl.cols) = 6
  /\ Len(visits[Len(visits)].pages) >= 2
  /\ rd.st = "returned"

\* The _start and _stop buffers of the page p hold p.l rows of the bounds.
BoundsFilled(p) ==
  /\ ~p.colBufs[startColIdx + 1].nil
  /\ p.colBufs[startColIdx + 1].rows = [h \in 1..p.l |-> bi.bounds.Start]
  /\ ~p.colBufs[stopColIdx + 1].nil
  /\ p.colBufs[stopColIdx + 1].rows = [h \in 1..p.l |-> bi.bounds.Stop]

\* C18: on every page a Table yields, the _start and _stop column buffers
\* hold Len() rows, each the start and the stop of the read's window.
C18_BoundsColumns ==
  \A j \in 1..Len(visits) : \A h \in 1..Len(visits[j].pages) :
     BoundsFilled(visits[j].pages[h])

\* The bounds columns of C18 on the pages built from Points frames.
BoundsColumnsOnPointsPages ==
  \A j \in 1..Len(visits) : \A h \in 1..Len(visits[j].pages) :
     visits[j].pages[h].c /= 0 => BoundsFilled(visits[j].pages[h])

\* C19: while the read runs, a more() of a stream that returns false, for
\* whatever reason, leaves finished set: a further more() returns false and
\* receives nothing.
C19_MoreFalseFinishes ==
  pc /= "panic" =>
    \A j \in 1..Len(ms.streams) :
       LET r == StreamMore(ms.streams[j])
       IN ~r.ret =>
            /\ r.s.finished
            /\ StreamMore(r.s) = [s |-> r.s, ret |-> FALSE]

\* more() of a stream that returns false at the end of the stream.
MoreFalseAtEndFinishes ==
  \A j \in 1..Len(ms.streams) :
     LET r == StreamMore(ms.streams[j])
     IN (~r.ret /\ ms.streams[j].stream.msgs = <<>>) =>
          /\ r.s.finished
          /\ StreamMore(r.s) = [s |-> r.s, ret |-> FALSE]

GroupAtHead ==
  LET r == MsMore(ms)
  IN r.ret /\ readFrameType(MsPeek(r.ms)) = "groupType"

NoSeriesBehindGroup ==
  LET nx == MsNext(MsMore(ms).ms)
  IN \/ MsPeekPanics(nx.ms)
     \/ readFrameType(MsPeek(nx.ms)) /= "seriesType"

\* C20: a turn of handleGroupRead that takes a Group frame with no frame
\* buffered behind it, or with a frame that is not a Series frame behind it,
\* hands the visitor a Table whose value column is a string column.
C20_GroupLookahead ==
  [][(turns' /= turns /\ ~SeriesMode /\ GroupAtHead /\ NoSeriesBehindGroup) =>
        (pc' = "visit" /\ tbl'.cols[valueColIdx + 1].Type = "TString")]_vars

\* Stream j of the cursor m has a frame to give: its more() returns true.
StreamHasMore(m, j) == StreamMore(m.streams[j]).ret

\* The cursor r.ms that a more() left behind with result r.ret reports
\* exhaustion only when no stream has a frame left.
ExhaustedOnlyWhenAllAre(r) ==
  ~r.ret => \A j \in 1..Len(r.ms.streams) : ~StreamHasMore(r.ms, j)

\* C21: with two or more streams, a more() of the merge cursor that returns
\* false leaves every stream with a more() that returns false: no stream has
\* a buffered or receivable frame left.
C21_MergeExhaustion ==
  (Len(ms.streams) >= 2 /\ pc \in {"visit", "wait", "done"}) =>
     ExhaustedOnlyWhenAllAre(MsMore(ms))

\* C21 on responses without an empty batch.
MergeExhaustionWithoutEmptyBatch == NoEmptyBatch => C21_MergeExhaustion

\* The reference cursor: when the selected stream is exhausted or its key
\* has changed, every stream is scanned again for the minimum key.
RescanCurrent(m, r) ==
  IF r.ret /\ KeyEqual(StreamKey(r.s), m.currentKey)
  THEN [ms |-> [m EXCEPT !.streams[m.i + 1] = r.s], ret |-> TRUE]
  ELSE determineNewKey([m EXCEPT !.streams[m.i + 1] = r.s])

RescanMore(m) ==
  IF Len(m.streams) = 1 THEN SingleMore(m, StreamMore(m.streams[1]))
  ELSE IF m.i < 0 THEN [ms |-> m, ret |-> FALSE]
  ELSE IF m.currentKey = NilKey THEN determineNewKey(m)
  ELSE RescanCurrent(m, StreamMore(m.streams[m.i + 1]))

FrameId(f) == [c |-> f.c, id |-> f.id]

RECURSIVE DrainStepped(_), DrainRescan(_)

DrainSteppedNext(nx) == <<FrameId(nx.frame)>> \o DrainStepped(nx.ms)

DrainSteppedFrom(r) == IF ~r.ret THEN <<>> ELSE DrainSteppedNext(MsNext(r.ms))

\* The frames the merge cursor m returns when it is drained with more() and
\* next().
DrainStepped(m) == DrainSteppedFrom(MsMore(m))

DrainRescanNext(nx) == <<FrameId(nx.frame)>> \o DrainRescan(nx.ms)

DrainRescanFrom(r) == IF ~r.ret THEN <<>> ELSE DrainRescanNext(MsNext(r.ms))

\* The frames the reference cursor returns when it is drained from m.
DrainRescan(m) == DrainRescanFrom(RescanMore(m))

\* C22: from every state of the merge cursor over two or more sorted
\* streams, draining it with the code's more() (step to the next stream
\* index, re-scan after the last stream) returns the same frame sequence as
\* draining it with a more() that re-scans all streams for the minimum key,
\* first index winning, whenever the selected stream is exhausted or changes
\* its key.
C22_StepEqualsRescan ==
  (Len(ms.streams) >= 2 /\ pc \in {"visit", "wait", "done"}) =>
     DrainStepped(ms) = DrainRescan(ms)

\* C22 on responses without an empty batch.
StepEqualsRescanWithoutEmptyBatch == NoEmptyBatch => C22_StepEqualsRescan

\* The stream d.ms.i that determineNewKey has selected (d is its result) is
\* the lowest-indexed stream among those whose key is minimal.
LowestOfMinimal(d) ==
  d.ret =>
    \A j \in 1..Len(d.ms.streams) :
       StreamHasMore(d.ms, j) =>
         /\ ~KeyLess(StreamKey(d.ms.streams[j]), d.ms.currentKey)
         /\ KeyEqual(StreamKey(d.ms.streams[j]), d.ms.currentKey) => j >= d.ms.i + 1

\* Among the returned frames of one key, the connections appear in
\* ascending index order: each connection's frames form one run.
AscendingRunsPerKey(fs) ==
  \A a \in 1..Len(fs) : \A b \in (a + 1)..Len(fs) :
     fs[a].k = fs[b].k => fs[a].c <= fs[b].c

\* C23: determineNewKey selects the lowest-indexed stream among those whose
\* key is minimal, and the frames the merge cursor has returned for one
\* GroupKey come from the connections in ascending index order, one
\* contiguous run per connection.
C23_TieBreak ==
  (Len(ms.streams) >= 2 /\ pc \in {"visit", "wait", "done"}) =>
     /\ LowestOfMinimal(determineNewKey(ms))
     /\ AscendingRunsPerKey(ms.out)

\* C23 on responses without an empty batch.
TieBreakWithoutEmptyBatch == NoEmptyBatch => C23_TieBreak

\* The error RecvMsg gives on a connection that ends in a transport error.
TransportError == "err"

FailingConns == {c \in 1..Len(bi.conns) : bi.conns[c].client.end = TransportError}

CleanResponse(c) ==
  \A j \in 1..Len(bi.conns[c].client.msgs) : bi.conns[c].client.msgs[j] /= <<>>

\* A more() that meets the end of the stream marks the stream finished.
FinishedAtEnd(s) ==
  (~s.finished /\ s.Frames = <<>> /\ s.stream.msgs = <<>>) =>
     StreamMore(s) = [s |-> [s EXCEPT !.finished = TRUE], ret |-> FALSE]

\* C24: in a read with a connection that ends in a transport error, the
\* more() that meets the error marks that stream finished; Do never returns
\* the transport error and no Table records it; and when Do has returned nil
\* every stream is finished and every frame of every connection (those sent
\* before the error included) has been returned by the merge cursor, on the
\* connections whose response has no empty batch.
C24_TransportErrorSwallowed ==
  FailingConns /= {} =>
    /\ \A j \in 1..Len(ms.streams) : FinishedAtEnd(ms.streams[j])
    /\ ret /= TransportError
    /\ tbl.err /= TransportError
    /\ \A j \in 1..Len(visits) : visits[j].err /= TransportError
    /\ (pc = "done" /\ ret = "nil") =>
          \A j \in 1..Len(ms.streams) :
             CleanResponse(ms.streams[j].conn) =>
               /\ ms.streams[j].finished
               /\ OutOf(j) = Flatten(bi.conns[ms.streams[j].conn].client.msgs)

C24_Witness ==
  /\ Len(ms.streams) >= 2
  /\ pc = "done"
  /\ ret = "nil"
  /\ \E j \in 1..Len(ms.streams) :
        /\ ms.streams[j].conn \in FailingConns
        /\ ms.streams[j].finished
        /\ Len(OutOf(j)) >= 2
  /\ \E j \in 1..Len(ms.streams) :
        /\ ms.streams[j].conn \notin FailingConns
        /\ Len(OutOf(j)) >= 2

\* C25: every stream of the read was opened before any RecvMsg call had
\* been made on a stream of the read.
C25_OpensBeforeReceives ==
  \A j \in 1..Len(ms.streams) : ms.streams[j].before = 0

C25_Witness ==
  /\ Len(ms.streams) >= 2
  /\ \A j \in 1..Len(ms.streams) : Len(ms.streams[j].rcvd) >= 1
  /\ RecvMsgCalls(bi, ms.streams, 1) >= 3

ExplicitGrouping == bi.readSpec.GroupMode \in {"GroupModeBy", "GroupModeExcept"}

\* C26: the Tables of a read are built from Group frames (the group decode
\* path) exactly when the grouping mode is By or Except; in the modes None,
\* All and Default they are built from Series frames (the series decode
\* path).
C26_DecodePath ==
  \A j \in 1..Len(visits) : (visits[j].ann.ft = "groupType") <=> ExplicitGrouping

\* C26 without the grouping mode None.
DecodePathUnlessNone ==
  bi.readSpec.GroupMode /= "GroupModeNone" => C26_DecodePath

NonIncreasing(q) == \A j \in 1..(Len(q) - 1) : q[j] >= q[j + 1]

\* C27: on every page built from a Points frame, advance() has made a new
\* value buffer exactly when the frame has more points than the capacity
\* the value buffer of the frame's type had; a table whose pages so far
\* have non-increasing lengths has made its value buffer at most once.
C27_BufferReuse ==
  tbl.page /= NoPage =>
    /\ tbl.alloc.made <=> tbl.alloc.l > tbl.alloc.capBefore
    /\ NonIncreasing(tbl.alloc.sizes) => tbl.alloc.count <= 1

\* C27 for the value types other than integer and unsigned.
BufferReuseOtherTypes ==
  tbl.page.ft \notin {"intPointsType", "uintPointsType"} => C27_BufferReuse

\* The position in the returned frames of the frame a page was built from.
PagePos(pg) == CHOOSE q \in 1..Len(ms.out) : FrameId(ms.out[q]) = [c |-> pg.c, id |-> pg.id]

\* The Series frame most recently returned before position q.
RECURSIVE LastSeriesBefore(_)
LastSeriesBefore(q) ==
  IF ms.out[q].ft = "seriesType" THEN ms.out[q] ELSE LastSeriesBefore(q - 1)

\* The value a Series frame gives the tag with the label: the empty string
\* when it does not carry the tag.
TagValueIn(sf, label) ==
  IF \E h \in 1..Len(sf.Tags) : sf.Tags[h].Key = label
  THEN sf.Tags[CHOOSE h \in 1..Len(sf.Tags) : sf.Tags[h].Key = label].Value
  ELSE 0

TagColumnsFollow(pg, sf) ==
  \A j \in (valueColIdx + 2)..Len(pg.cols) :
     pg.colBufs[j] = Buf([h \in 1..pg.l |-> TagValueIn(sf, pg.cols[j].Label)])

\* C28: on every page built from a Points frame each tag column holds
\* Len() rows of the value the tag has in the Series frame most recently
\* consumed for the Table, the empty string when that frame does not carry
\* the tag; and when PointsLimit is not -1 every page is built from a Points
\* frame, a Series frame gives no page of its own.
C28_TagColumns ==
  \A j \in 1..Len(visits) : \A h \in 1..Len(visits[j].pages) :
     /\ visits[j].pages[h].ft \in PointsTypes =>
          TagColumnsFollow(visits[j].pages[h],
                           LastSeriesBefore(PagePos(visits[j].pages[h])))
     /\ bi.readSpec.PointsLimit /= -1 => visits[j].pages[h].ft \in PointsTypes

\* A Table built from a Group frame with two tag keys has yielded the page
\* of a series with both tags and then the page of a series with tagA only.
C28_Witness ==
  \E j \in 1..Len(visits) :
     /\ Len(visits[j].pages) >= 2
     /\ Len(visits[j].cols) = 6
     /\ visits[j].pages[1].colBufs[6].rows /= visits[j].pages[2].colBufs[6].rows

DoReturns == rd.st /= "returned" /\ rd'.st = "returned"

GateCloses == ~tbl.done /\ tbl'.done

\* C29: the step in which table.Do returns, on whatever path, is the step
\* that closes the Table's done channel, and the channel is closed in no
\* other step; once Do has returned and the iterator is in wait(), wait()
\* returns.
C29_GateClosedOnReturn ==
  [][/\ DoReturns <=> GateCloses
     /\ (rd'.st = "returned" /\ pc' = "wait") => TableWait(tbl')]_vars

\* Do has returned the type conflict of the Table while the iterator waits.
C29_Witness ==
  /\ pc = "wait"
  /\ rd.st = "returned"
  /\ rd.ret = "value type changed"
  /\ tbl.done

\* The announcement frames of a stream's mode.
AnnouncesIn(s, f) == f.ft = (IF s.group THEN "groupType" ELSE "seriesType")

\* The position in rcvd of the frame at the head of the buffer.
HeadPos(s) == Len(s.rcvd) - Len(s.Frames) + 1

\* The GroupKey of the announcement frame that owns the frame at position q
\* of rcvd: the frame itself or the last announcement received before it.
RECURSIVE OwnerKey(_, _)
OwnerKey(s, q) ==
  IF q < 1 THEN NilKey
  ELSE IF AnnouncesIn(s, s.rcvd[q])
  THEN IF s.group THEN groupKeyForGroup(s.rcvd[q], s.readSpec, s.bounds)
       ELSE groupKeyForSeries(s.rcvd[q], s.readSpec, s.bounds)
  ELSE OwnerKey(s, q - 1)

\* After a more() with result r that returned true, key() is the key of the
\* owner of the head frame.
KeyOfOwnerAfter(r) == r.ret => StreamKey(r.s) = OwnerKey(r.s, HeadPos(r.s))

\* C30: whenever more() of a stream returns true, with or without a
\* receive, key() is the GroupKey of the announcement frame of the stream's
\* mode that owns the head frame.
C30_StreamKey ==
  \A j \in 1..Len(ms.streams) : KeyOfOwnerAfter(StreamMore(ms.streams[j]))

\* A group-mode stream whose head is a Series frame of its second group.
C30_Witness ==
  \E j \in 1..Len(ms.streams) :
     /\ ms.streams[j].group
     /\ ms.streams[j].Frames /= <<>>
     /\ ms.streams[j].Frames[1].ft = "seriesType"
     /\ ms.streams[j].Frames[1].k = 2
     /\ \E f \in Range(ms.streams[j].rcvd) : f.k = 1

\* The Table the visitor holds after the step, Do not yet called, has
\* Empty() true exactly when Do will return without calling the column
\* callback, and false exactly when a page of a Points frame is primed.
EmptyAtHandOff ==
  (Len(visits') > 0 /\ rd'.st = "idle") =>
     /\ tbl'.empty <=> (TableDoEnter(tbl').rd.st = "returned")
     /\ ~tbl'.empty <=> (tbl'.page.ft \in PointsTypes)

\* A step within one Table does not take Empty() from false back to true.
EmptyStaysFalse ==
  (Len(visits') = Len(visits) /\ ~tbl.empty) => ~tbl'.empty

\* C31: a Table handed to the visitor has Empty() true exactly when it will
\* yield no page and false exactly when a page of point data is available;
\* once Empty() is false it stays false.
C31_EmptyMeansNoPages == [][EmptyAtHandOff /\ EmptyStaysFalse]_vars

\* C31 for the reads that ask for points.
EmptyMeansNoPagesWithPoints ==
  [][bi.readSpec.PointsLimit /= -1 => (EmptyAtHandOff /\ EmptyStaysFalse)]_vars

\* Do, resumed with result r after the column callback has returned the
\* error e, has returned e: the callback is not called again.
ReturnsCallbackError(r, e) == r.rd.st = "returned" /\ r.rd.ret = e

\* C32: whenever table.Do is inside the column callback, on the first page
\* or a later one, an error returned by the callback makes Do return that
\* error without calling the callback again.
C32_CallbackErrorReturned ==
  (pc \in {"visit", "wait", "done"} /\ rd.st = "callback") =>
     ReturnsCallbackError(TableDoResume(tbl, ms, rd, "callback error"),
                          "callback error")

\* C32 for the pages after the first.
CallbackErrorReturnedAfterFirstPage ==
  ~rd.first => C32_CallbackErrorReturned

\* A frame that stops advance() of table t: a Group frame, a Series frame
\* while the cursor's key is not the table's, a Points frame of another type.
StopsTable(t, m, f) ==
  \/ f.ft = "groupType"
  \/ f.ft = "seriesType" /\ ~KeyEqual(MsKey(m), t.key)
  \/ f.ft \in PointsTypes /\ t.cols[valueColIdx + 1].Type /= PointsValueType(f.ft)

\* The frames the cursor m has returned beyond the first n.
ReturnedSince(m, n) == SubSeq(m.out, n + 1, Len(m.out))

\* An advance() with result a that returned false at a frame (its last
\* more() returned true) has taken same-key Series frames only and has left
\* a frame that stops the table at the head of the cursor; the iterator's
\* more() returns true and leaves the cursor as it is.
StopFrameLeft(a) ==
  (~a.ret /\ ~MsPeekPanics(a.ms)) =>
    /\ \A f \in Range(ReturnedSince(a.ms, Len(ms.out))) : f.ft = "seriesType"
    /\ StopsTable(a.t, a.ms, MsPeek(a.ms))
    /\ FrameId(MsPeek(a.ms)) \notin {FrameId(f) : f \in Range(a.ms.out)}
    /\ MsMore(a.ms) = [ms |-> a.ms, ret |-> TRUE]

\* C33: an advance() of the current Table that returns false has not
\* consumed the frame that stopped it: that frame is the head of the merge
\* cursor and the iterator's next more()/peek() sees it.
C33_StopFrameNotConsumed ==
  (pc \in {"visit", "wait", "done"} /\ Len(visits) > 0) =>
     StopFrameLeft(TableAdvance(tbl, ms))

\* Do has returned a type conflict and the iterator has met the
\* conflicting Points frame at the head of the cursor.
C33_Witness ==
  /\ pc = "done"
  /\ ret = "internal error: short read"
  /\ rd.st = "returned"
  /\ tbl.err = "value type changed"
  /\ ~MsPeekPanics(ms)
  /\ MsPeek(ms).ft \in PointsTypes

\* The table t holds the page of the Points frame f: Len() is the number of
\* its timestamps, every column buffer has Len() rows, _time and _value are
\* the frame's timestamps and values in frame order.
PageOfFrame(t, f) ==
  /\ t.l = Len(f.Timestamps)
  /\ \A j \in 1..Len(t.cols) : ~t.colBufs[j].nil /\ Len(t.colBufs[j].rows) = t.l
  /\ t.colBufs[timeColIdx + 1].rows = f.Timestamps
  /\ t.colBufs[valueColIdx + 1].rows = f.Values

\* An advance() with result a that returned true for a Points frame has
\* taken exactly one Points frame, the last frame it took, and holds its
\* page.
OnePointsFrameTaken(a, taken) ==
  (a.ret /\ a.t.page.ft \in PointsTypes) =>
    /\ Len(taken) >= 1
    /\ \A q \in 1..(Len(taken) - 1) : taken[q].ft \notin PointsTypes
    /\ FrameId(taken[Len(taken)]) = [c |-> a.t.page.c, id |-> a.t.page.id]
    /\ PageOfFrame(a.t, taken[Len(taken)])

OnePagePerFrame(a) == OnePointsFrameTaken(a, ReturnedSince(a.ms, Len(ms.out)))

\* The pages of Points frames a Table has yielded come from different frames.
PagesDistinct(pages) ==
  \A g \in 1..Len(pages) : \A h \in (g + 1)..Len(pages) :
     (pages[g].ft \in PointsTypes /\ pages[h].ft \in PointsTypes) =>
        [c |-> pages[g].c, id |-> pages[g].id] /= [c |-> pages[h].c, id |-> pages[h].id]

\* C34: the page a Table holds from a Points frame has Len() equal to the
\* frame's number of timestamps, every column buffer with Len() rows, and
\* _time and _value equal to the frame's timestamps and values; an
\* advance() that returns true for a Points frame takes exactly one Points
\* frame; no two pages of a Table come from the same frame.
C34_OnePagePerFrame ==
  (pc \in {"visit", "wait", "done"} /\ Len(visits) > 0) =>
     /\ tbl.page.ft \in PointsTypes => PageOfFrame(tbl, ms.out[PagePos(tbl.page)])
     /\ OnePagePerFrame(TableAdvance(tbl, ms))
     /\ \A j \in 1..Len(visits) : PagesDistinct(visits[j].pages)

\* Do is in the callback of a second page, a page of two rows with a tag
\* column.
C34_Witness ==
  /\ rd.st = "callback"
  /\ ~rd.first
  /\ tbl.page.ft \in PointsTypes
  /\ tbl.l = 2
  /\ Len(tbl.cols) >= 5

\* C35: with streams that end, a visitor that returns and a table.Do that
\* is run to completion, tableIterator.Do eventually returns, with nil or
\* with an error.
C35_DoReturns == <>(pc = "done")

\* Do eventually returns or panics.
DoReturnsOrPanics == <>(pc \in {"done", "panic"})

\* The stream steps (calls of streamState.more) one call of more() on the
\* cursor m makes: one per stream in determineNewKey, one for the current
\* stream in more().
RECURSIVE MoreSteps(_)
AdvanceSteps(m) ==
  IF m.i + 1 = Len(m.streams)
  THEN Len(m.streams)
       + (IF determineNewKey([m EXCEPT !.i = m.i + 1]).ret
          THEN MoreSteps(determineNewKey([m EXCEPT !.i = m.i + 1]).ms)
          ELSE 0)
  ELSE MoreSteps([m EXCEPT !.i = m.i + 1])

CurrentSteps(m, r) ==
  IF r.ret /\ KeyEqual(StreamKey(r.s), m.currentKey)
  THEN 1
  ELSE 1 + AdvanceSteps([m EXCEPT !.streams[m.i + 1] = r.s])

MoreSteps(m) ==
  IF Len(m.streams) = 1 THEN 1
  ELSE IF m.i < 0 THEN 0
  ELSE IF m.currentKey = NilKey THEN Len(m.streams)
  ELSE CurrentSteps(m, StreamMore(m.streams[m.i + 1]))

\* more() on the cursor of the read ends after at most one step for each
\* stream behind the current one, one scan of all streams and one step more.
MoreStepsBounded ==
  pc \in {"visit", "wait", "done"} /\ ms /= NoCursor =>
    MoreSteps(ms) <= 2 * Len(ms.streams) + 1

\* Do eventually returns from a read whose grouping mode is By or Except.
DoReturnsUnderExplicitGrouping == <>(pc = "done" \/ ~ExplicitGrouping)

\* The more() results a and b agree: the same boolean and, when it is true,
\* the same frame under peek() and the same key under key().
SameHead(a, b) ==
  /\ b.ret = a.ret
  /\ a.ret => /\ MsPeekPanics(b.ms) = MsPeekPanics(a.ms)
              /\ ~MsPeekPanics(a.ms) => MsPeek(b.ms) = MsPeek(a.ms)
              /\ MsKey(b.ms) = MsKey(a.ms)

\* The second more() after the result a agrees with a, and the third with
\* the second.
MoreAgain(a, b) == SameHead(a, b) /\ SameHead(b, MsMore(b.ms))

MoreIdempotent(a) == MoreAgain(a, MsMore(a.ms))

\* C36: more() of the merge cursor, called again without a next() between
\* the calls, returns the same boolean and leaves peek() and key() on the
\* same frame and key.
C36_MoreIdempotent ==
  (pc \in {"visit", "wait", "done"} /\ ms /= NoCursor) => MoreIdempotent(MsMore(ms))

\* C36 on responses without an empty batch.
MoreIdempotentWithoutEmptyBatch == NoEmptyBatch => C36_MoreIdempotent

\* The cursor m has a selected stream with a buffered frame, whose key is
\* the cursor's current key.
SelectedHasHead(m) ==
  /\ 0 <= m.i
  /\ m.i < Len(m.streams)
  /\ Len(m.streams[m.i + 1].Frames) > 0
  /\ KeyEqual(StreamKey(m.streams[m.i + 1]), m.currentKey)

\* The more() result r: true with a selected head, or false with i = -1 and
\* a cursor whose next more() is false again and changes nothing.
MoreSelects(r) ==
  /\ r.ret => SelectedHasHead(r.ms)
  /\ (~r.ret /\ r.ms.i = -1) => MsMore(r.ms) = [ms |-> r.ms, ret |-> FALSE]

\* C37: with two or more streams, more() that returns true leaves
\* 0 <= i < len(streams), a non-empty buffer in streams[i] and
\* streams[i].key() equal to currentKey; more() that returns false with
\* i = -1 returns false from then on and leaves every stream as it is.
C37_SelectedStream ==
  (Len(ms.streams) >= 2 /\ pc \in {"visit", "wait", "done"}) => MoreSelects(MsMore(ms))

\* more() moved to another stream and returned true.
MovedOn(m, r) == r.ret /\ r.ms.i /= m.i

C37_Witness ==
  /\ Len(ms.streams) >= 2
  /\ pc \in {"visit", "wait", "done"}
  /\ MovedOn(ms, MsMore(ms))

\* more() returned false and left i = -1.
C37_WitnessExhausted ==
  /\ Len(ms.streams) >= 2
  /\ pc \in {"visit", "wait", "done"}
  /\ ms.i >= 0
  /\ ~MsMore(ms).ret

\* The tags of the list tags named by the group keys gk, in the order of gk.
RECURSIVE TagsNamed(_, _, _)
TagsNamed(tags, gk, j) ==
  IF j > Len(gk) THEN <<>>
  ELSE SelectSeq(tags, LAMBDA t : t.Key = gk[j]) \o TagsNamed(tags, gk, j + 1)

\* C38: in GroupModeBy the key groupKeyForSeries returns is _start, _stop
\* and, in GroupKeys order, the tags of the series whose key is in
\* GroupKeys; a group key that is not a tag of the series adds no column.
C38_GroupByKey ==
  (pc = "key" /\ bi.readSpec.GroupMode = "GroupModeBy") =>
     tbl.key = NewGroupKey(TagsNamed(KeySeries.Tags, bi.readSpec.GroupKeys, 1),
                           bi.bounds)

\* Every group key is a tag of the series, or is greater than every tag key.
GroupKeysFound ==
  \A j \in 1..Len(bi.readSpec.GroupKeys) :
     \/ \E h \in 1..Len(KeySeries.Tags) :
           KeySeries.Tags[h].Key = bi.readSpec.GroupKeys[j]
     \/ \A h \in 1..Len(KeySeries.Tags) :
           StrRank(KeySeries.Tags[h].Key) < StrRank(bi.readSpec.GroupKeys[j])

\* C38 when no group key falls before a tag it does not name.
GroupByKeyWhenFound == GroupKeysFound => C38_GroupByKey

\* The tags of the list tags that gk does not name.
TagsNotNamed(tags, gk) ==
  SelectSeq(tags, LAMBDA t : \A j \in 1..Len(gk) : gk[j] /= t.Key)

\* C39: in GroupModeExcept groupKeyForSeries does not fail, and the key it
\* returns is _start, _stop and the tags of the series GroupKeys does not
\* name.
C39_GroupExceptKey ==
  bi.readSpec.GroupMode = "GroupModeExcept" =>
     /\ pc /= "panic"
     /\ pc = "key" =>
          tbl.key = NewGroupKey(TagsNotNamed(KeySeries.Tags, bi.readSpec.GroupKeys),
                                bi.bounds)

\* In GroupModeExcept a call that returns returns _start and _stop alone.
GroupExceptKeyIsBounds ==
  (pc = "key" /\ bi.readSpec.GroupMode = "GroupModeExcept") =>
     tbl.key = NewGroupKey(<<>>, bi.bounds)

\* In GroupModeExcept the call does not fail.
GroupExceptReturns ==
  bi.readSpec.GroupMode = "GroupModeExcept" => pc /= "panic"

\* In the modes All and Default the key holds every tag of the series.
GroupAllKey ==
  (pc = "key" /\ bi.readSpec.GroupMode \in {"GroupModeAll", "GroupModeDefault"}) =>
     tbl.key = NewGroupKey(KeySeries.Tags, bi.bounds)

====
